---- MODULE Spec2Model ----
(***************************************************************************)
(* Model of the combined website-metrics endpoint,                         *)
(* src/pages/api/websites/[websiteId]/getWebsiteMetrics.ts.  The file      *)
(* holds three revisions of the handler one after the other; the model     *)
(* follows the latest one, the exported GET function (lines 471-640).      *)
(*                                                                         *)
(* JavaScript values are tagged records: [t |-> "array", items |-> seq],   *)
(* [t |-> "Response", ...], [t |-> "TypeError"], [t |-> "undefined"], ...  *)
(* Strings that the code takes apart (data-point codes, language tags,     *)
(* raw stat values) are sequences of one-character strings.                *)
(***************************************************************************)
EXTENDS Integers, Sequences, FiniteSets, TLC

VARIABLES
    pc,             \* position of the handler (or of the function under study)
    req,            \* the parsed request: valid, canView, type, search, ...
    filters,        \* const filters = getRequestFilters(query)
    filters_search, \* const filters_search = {...filters, startDate, endDate}
    queries,        \* every query issued so far, in order of issue
    metrics,        \* const metrics
    prevPeriod,     \* const prevPeriod
    stats,          \* const stats
    osData,         \* const osData
    browserData,    \* const browserData
    countryData,    \* const countryData
    response,       \* what the request ended with
    fdim,           \* getMetricsData / formattedData studied alone: its type
    fdata,          \* formattedData studied alone: its data
    fret            \* getMetricsData / formattedData studied alone: its result

vars == <<pc, req, filters, filters_search, queries, metrics, prevPeriod, stats,
          osData, browserData, countryData, response, fdim, fdata, fret>>

-----------------------------------------------------------------------------
(* Bounds of the model *)

\* longest sequence of data points a breakdown query returns
MaxPoints == 3
\* largest count a data point or a numeric stat value carries
MaxY == 2

-----------------------------------------------------------------------------
(* JavaScript values *)

Undefined == [t |-> "undefined"]
Null == [t |-> "null"]
NaN == [t |-> "NaN"]
TypeError == [t |-> "TypeError"]
Pending == [t |-> "pending"]
Rejected == [t |-> "rejected"]

Num(n) == [t |-> "number", n |-> n]
Str(s) == [t |-> "string", s |-> s]
Arr(items) == [t |-> "array", items |-> items]
Obj(map) == [t |-> "object", map |-> map]

\* obj[key] on a plain object held as a function: undefined when absent
Get(map, key) == IF key \in DOMAIN map THEN map[key] ELSE Undefined

\* { ...map, [key]: value }
Put(map, key, value) ==
    [k \in DOMAIN map \cup {key} |-> IF k = key THEN value ELSE map[k]]

Digits == <<"0", "1", "2", "3", "4", "5", "6", "7", "8", "9">>

IsDigit(c) == \E d \in DOMAIN Digits : Digits[d] = c

DigitValue(c) == (CHOOSE d \in DOMAIN Digits : Digits[d] = c) - 1

RECURSIVE DecimalValue(_)
DecimalValue(s) ==
    IF s = <<>> THEN 0
    ELSE 10 * DecimalValue(SubSeq(s, 1, Len(s) - 1)) + DigitValue(s[Len(s)])

RECURSIVE TrimLeft(_)
TrimLeft(s) ==
    IF s # <<>> /\ s[1] = " " THEN TrimLeft(Tail(s)) ELSE s

RECURSIVE TrimRight(_)
TrimRight(s) ==
    IF s # <<>> /\ s[Len(s)] = " " THEN TrimRight(SubSeq(s, 1, Len(s) - 1)) ELSE s

\* Number(string), over strings of digits, letters and blanks: blanks are
\* trimmed, the empty string is 0, a run of digits is its decimal value and
\* anything else is NaN.
StringToNumber(s) ==
    LET body == TrimRight(TrimLeft(s))
    IN  IF body = <<>> THEN Num(0)
        ELSE IF \A i \in DOMAIN body : IsDigit(body[i]) THEN Num(DecimalValue(body))
        ELSE NaN

\* Number(v)
ToNumber(v) ==
    CASE v.t = "number" -> v
      [] v.t = "bigint" -> Num(v.n)
      [] v.t = "string" -> StringToNumber(v.s)
      [] v.t = "null" -> Num(0)
      [] OTHER -> NaN

\* Mutant of NumberOrZero: only values that already are numbers are kept.
NumberOrZeroNumbersOnly(v) == IF v.t = "number" THEN v.n ELSE 0

\* Number(v) || 0
NumberOrZero(v) ==
    LET n == ToNumber(v) IN IF n.t = "NaN" \/ n.n = 0 THEN 0 ELSE n.n

-----------------------------------------------------------------------------
(* Imported constants and collaborators (lib/constants, lib/date,           *)
(* lib/response, public/intl): not part of the source file.                 *)

SESSION_COLUMNS ==
    {"browser", "os", "device", "screen", "language", "country", "region", "city"}

EVENT_COLUMNS == {"url", "referrer", "title", "query", "event", "tag"}

FILTER_COLUMNS ==
    [k \in {"url", "referrer", "title", "os", "browser", "country"} |->
        CASE k = "url" -> "url_path"
          [] k = "referrer" -> "referrer_domain"
          [] k = "title" -> "page_title"
          [] OTHER -> k]

OPERATORS_contains == "c"

OS_NAMES ==
    [x \in {<<"M", "a", "c", " ", "O", "S">>} |-> <<"m", "a", "c", "O", "S">>]

BROWSERS ==
    [x \in {<<"c", "h", "r", "o", "m", "e">>} |-> <<"C", "h", "r", "o", "m", "e">>]

countryNames ==
    [x \in {<<"U", "S">>, <<"D", "E">>} |->
        IF x = <<"U", "S">> THEN <<"M", "e", "i", "g", "u", "o">>
        ELSE <<"D", "e", "g", "u", "o">>]

\* badRequest(): a Response object with the bad-request status
badRequest == [t |-> "Response", status |-> "badRequest"]

unauthorized == [t |-> "Response", status |-> "unauthorized"]

\* parseRequest's error(): the validation failure response
validationError == [t |-> "Response", status |-> "validationError"]

\* json(body)
json(body) == [t |-> "Response", status |-> "ok", body |-> body]

Date(ms) == [t |-> "date", ms |-> ms]

\* getRequestDateRange(query)
getRequestDateRange(query) ==
    [startDate |-> Date(query.startAt), endDate |-> Date(query.endAt)]

\* getCompareDate(compare, startDate, endDate): the period of the same length
\* that ends where the current one starts
getCompareDate(compare, startDate, endDate) ==
    LET diff == endDate.ms - startDate.ms
    IN  [startDate |-> Date(startDate.ms - diff), endDate |-> Date(endDate.ms - diff)]

\* getRequestFilters(query): the filter parameters the request carries
getRequestFilters(query) ==
    [k \in DOMAIN query.params |-> [t |-> "raw", s |-> query.params[k]]]

-----------------------------------------------------------------------------
(* The pure parts of GET *)

BreakdownTypes == <<"os", "browser", "country">>

\* if (v): a string is truthy unless it is empty, undefined is not
Truthy(v) == v.t = "string" /\ v.s # ""

\* const column = FILTER_COLUMNS[type] || type
Column(type) == IF type \in DOMAIN FILTER_COLUMNS THEN FILTER_COLUMNS[type] ELSE type

\* { ...filters, startDate, endDate }
WithDates(f, startDate, endDate) ==
    Put(Put(f, "startDate", startDate), "endDate", endDate)

\* the object assigned to filters_search[type]
SearchFilter(type, search) ==
    [t |-> "filter", name |-> type, column |-> Column(type),
     operator |-> OPERATORS_contains, value |-> search.s]

\* if (search) { filters_search[type] = {...} }
ApplySearch(fs, type, search) ==
    IF Truthy(search) THEN Put(fs, type, SearchFilter(type, search)) ELSE fs

\* const stats = Object.keys(metrics[0]).reduce(...): metrics[0] of a
\* Response or of an empty array is undefined, and Object.keys(undefined)
\* throws; so does prevPeriod[0][key] when prevPeriod[0] is undefined.
Stats(m, p) ==
    IF m.t # "array" \/ m.items = <<>> THEN TypeError
    ELSE LET cur == m.items[1]
         IN  IF DOMAIN cur # {} /\ (p.t # "array" \/ p.items = <<>>) THEN TypeError
             ELSE IF DOMAIN cur = {} THEN Obj(<<>>)
             ELSE Obj([k \in DOMAIN cur |->
                        [value |-> NumberOrZero(Get(cur, k)),
                         prev |-> NumberOrZero(Get(p.items[1], k))]])

-----------------------------------------------------------------------------
(* getMetricsData and formattedData *)

\* Mutant of Dispatch: a type outside the session family always goes to the
\* pageview-metrics query.
DispatchNoDefault(type) ==
    IF type \in SESSION_COLUMNS THEN "getSessionMetrics" ELSE "getPageviewMetrics"

\* which query getMetricsData issues for a type
Dispatch(type) ==
    IF type \in SESSION_COLUMNS THEN "getSessionMetrics"
    ELSE IF type \in EVENT_COLUMNS THEN "getPageviewMetrics"
    ELSE "none"

\* toLowerCase of one character, over the letters the modelled codes use
Lower(c) ==
    CASE c = "E" -> "e" [] c = "N" -> "n" [] c = "U" -> "u" [] c = "S" -> "s"
      [] c = "G" -> "g" [] c = "B" -> "b" [] c = "F" -> "f" [] c = "R" -> "r"
      [] c = "M" -> "m" [] c = "O" -> "o" [] c = "D" -> "d" [] c = "C" -> "c"
      [] c = "X" -> "x" [] OTHER -> c

\* s.toLowerCase()
toLowerCase(s) == [i \in DOMAIN s |-> Lower(s[i])]

\* s.split('-')[0]
RECURSIVE BeforeDash(_)
BeforeDash(s) ==
    IF s = <<>> \/ s[1] = "-" THEN <<>> ELSE <<s[1]>> \o BeforeDash(Tail(s))

\* String(x).toLowerCase().split('-')[0]
BucketKey(x) == BeforeDash(toLowerCase(x))

\* An own property key that is an array index ("0", "7", "419", but not "07"):
\* such keys are enumerated before all others, in ascending numeric order.
\* (The modelled keys stay far below the largest array index, 2^32 - 2.)
IsIndexKey(k) ==
    /\ k # <<>>
    /\ \A i \in DOMAIN k : IsDigit(k[i])
    /\ (Len(k) > 1 => k[1] # "0")

\* the for-of loop over data: entries of `combined` in creation order.
\* (Keys that name a property of Object.prototype, for which
\* combined[key] === undefined is false from the start, are not among the
\* modelled language tags.)
RECURSIVE Combine(_, _)
Combine(points, combined) ==
    IF points = <<>> THEN combined
    ELSE LET key == BucketKey(points[1].x)
             hit == {i \in DOMAIN combined : combined[i].x = key}
         IN  Combine(Tail(points),
                     IF hit = {}
                     THEN Append(combined, [x |-> key, y |-> points[1].y])
                     ELSE LET i == CHOOSE j \in hit : TRUE
                          IN  [combined EXCEPT ![i].y = @ + points[1].y])

RECURSIVE SortByIndex(_)
SortByIndex(entries) ==
    IF entries = <<>> THEN <<>>
    ELSE LET least == CHOOSE i \in DOMAIN entries :
                          \A j \in DOMAIN entries :
                              DecimalValue(entries[i].x) <= DecimalValue(entries[j].x)
         IN  <<entries[least]>> \o
             SortByIndex(SubSeq(entries, 1, least - 1) \o
                         SubSeq(entries, least + 1, Len(entries)))

\* Object.values(combined): array-index keys first, ascending, then the
\* other keys in creation order
ObjectValues(combined) ==
    SortByIndex(SelectSeq(combined, LAMBDA e : IsIndexKey(e.x))) \o
    SelectSeq(combined, LAMBDA e : ~IsIndexKey(e.x))

\* the `type === 'language'` block; a Response is not iterable
CombineLanguages(data) ==
    IF data.t # "array" THEN TypeError
    ELSE Arr(ObjectValues(Combine(data.items, <<>>)))

\* await query.catch(() => badRequest()): the settled value, or the
\* Response that badRequest() builds
CatchBadRequest(q) ==
    IF q.status = "rejected" THEN badRequest ELSE q.value

\* what getMetricsData returns once its query has settled
GetMetricsDataReturn(type, q) ==
    IF q.fn = "getSessionMetrics" /\ type = "language"
    THEN CombineLanguages(CatchBadRequest(q))
    ELSE CatchBadRequest(q)

\* the switch that selects `source`
Source(type) ==
    CASE type = "os" -> Obj(OS_NAMES)
      [] type = "browser" -> Obj(BROWSERS)
      [] type = "country" -> Obj(countryNames)
      [] OTHER -> Undefined

\* item.x.toLowerCase().replace(/ /g, '-')
ItemName(x) == [i \in DOMAIN x |-> IF x[i] = " " THEN "-" ELSE Lower(x[i])]

\* the switch that builds `icon`
Icon(type, x) ==
    CASE type = "os" -> <<"//umami.guole.fun/images/os/">> \o ItemName(x) \o <<".png">>
      [] type = "browser" ->
            <<"//umami.guole.fun/images/browser/">> \o ItemName(x) \o <<".png">>
      [] type = "country" ->
            <<"//umami.guole.fun/images/country/">> \o ItemName(x) \o <<".png">>
      [] type = "device" ->
            <<"//umami.guole.fun/images/device/">> \o ItemName(x) \o <<".png">>
      [] OTHER -> <<>>

\* source[item.x] || item.x
Name(source, x) ==
    IF x \in DOMAIN source /\ source[x] # <<>> THEN source[x] ELSE x

\* Mutant of formattedData: codes without a table entry are dropped.
formattedDataDropUnknown(data, type) ==
    IF Source(type).t = "object"
    THEN IF data.t # "array" THEN TypeError
         ELSE LET known == SelectSeq(data.items,
                                     LAMBDA p : p.x \in DOMAIN Source(type).map)
              IN  Arr([i \in DOMAIN known |->
                        [name |-> Name(Source(type).map, known[i].x),
                         icon |-> Icon(type, known[i].x),
                         x |-> known[i].x, y |-> known[i].y]])
    ELSE Arr(<<>>)

\* Mutant of formattedData: x is replaced by the display name.
formattedDataRenameX(data, type) ==
    IF Source(type).t = "object"
    THEN IF data.t # "array" THEN TypeError
         ELSE Arr([i \in DOMAIN data.items |->
                    [name |-> Name(Source(type).map, data.items[i].x),
                     icon |-> Icon(type, data.items[i].x),
                     x |-> Name(Source(type).map, data.items[i].x),
                     y |-> data.items[i].y]])
    ELSE Arr(<<>>)

\* formattedData(data, type): data.map of a Response is not a function
formattedData(data, type) ==
    IF Source(type).t = "object"
    THEN IF data.t # "array" THEN TypeError
         ELSE Arr([i \in DOMAIN data.items |->
                    [name |-> Name(Source(type).map, data.items[i].x),
                     icon |-> Icon(type, data.items[i].x),
                     x |-> data.items[i].x,
                     y |-> data.items[i].y]])
    ELSE Arr(<<>>)

\* the object handed to json(): the three formatted breakdowns are built in
\* order, and the first that throws ends the handler.  formattedData returns
\* an array, which is truthy, so `|| []` never applies; nor does `stats || []`.
Payload(os, browser, country, st) ==
    LET o == formattedData(os, "os")
        b == formattedData(browser, "browser")
        c == formattedData(country, "country")
    IN  IF o.t = "TypeError" \/ b.t = "TypeError" \/ c.t = "TypeError" THEN TypeError
        ELSE json([os |-> o, browser |-> b, country |-> c, stats |-> st])

-----------------------------------------------------------------------------
(* Inputs: requests and query outcomes *)

\* longest breakdown result inside a whole request
MaxHandlerPoints == 1

RECURSIVE SeqsUpTo(_, _)
SeqsUpTo(S, n) ==
    IF n = 0 THEN {<<>>}
    ELSE LET shorter == SeqsUpTo(S, n - 1)
         IN  shorter \cup {Append(q, e) : q \in {r \in shorter : Len(r) = n - 1}, e \in S}

\* codes a breakdown query returns for a type: some with a name-table entry,
\* some without
Codes(type) ==
    CASE type = "os" -> {<<"M", "a", "c", " ", "O", "S">>, <<"X">>}
      [] type = "browser" -> {<<"c", "h", "r", "o", "m", "e">>, <<"X">>}
      [] type = "country" -> {<<"U", "S">>, <<"X", "X">>}
      [] type = "language" ->
            {<<"e", "n", "-", "U", "S">>, <<"E", "N">>, <<"f", "r">>,
             <<"4", "1", "9">>, <<"7">>}
      [] OTHER -> {<<"X">>}

Requests ==
    [valid : BOOLEAN, canView : BOOLEAN,
     type : {"os", "url", "path", "startDate"},
     search : {Undefined, Str(""), Str("ab")},
     params : {<<>>, [os |-> "Linux"]},
     compare : {"prev"}, startAt : {20}, endAt : {30}]

\* rows the website-stats query returns inside a whole request
HandlerStatRows == {<<>>, [visits |-> Num(MaxY)], [visits |-> Null]}

Fulfilled(v) == [status |-> "fulfilled", value |-> v]

Failed == [status |-> "rejected", value |-> Rejected]

\* how a pending query of a whole request can settle
Outcomes(q) ==
    IF q.fn = "getWebsiteStats"
    THEN {Failed, Fulfilled(Arr(<<>>))} \cup {Fulfilled(Arr(<<r>>)) : r \in HandlerStatRows}
    ELSE {Failed} \cup
         {Fulfilled(Arr(ps)) :
            ps \in SeqsUpTo([x : Codes(q.type), y : {MaxY}], MaxHandlerPoints)}

Query(fn, type, f) ==
    [fn |-> fn, type |-> type, filters |-> f, status |-> "pending", value |-> Pending]

-----------------------------------------------------------------------------
(* The handler GET as a state machine *)

CallPc == <<"call_os", "call_browser", "call_country">>
AwaitPc == <<"await_os", "await_browser", "await_country">>
AfterPc == <<"call_browser", "call_country", "respond">>

\* Mutant of Awaited: the continuation runs without waiting for the query.
AwaitedNoWait(q) == TRUE

\* await: the continuation runs once the query has settled
Awaited(q) == q.status # "pending"

\* Mutant of MayView: the result of canViewWebsite is ignored.
MayViewAlways(r) == TRUE

\* await canViewWebsite(auth, websiteId)
MayView(r) == r.canView

Init ==
    /\ pc = "parse"
    /\ req \in Requests
    /\ filters = Undefined
    /\ filters_search = Undefined
    /\ queries = <<>>
    /\ metrics = Undefined
    /\ prevPeriod = Undefined
    /\ stats = Undefined
    /\ osData = Undefined
    /\ browserData = Undefined
    /\ countryData = Undefined
    /\ response = Undefined
    /\ fdim = "os"
    /\ fdata = Undefined
    /\ fret = Undefined

\* lines 486-493: parseRequest and its error
ParseRequest ==
    /\ pc = "parse"
    /\ IF req.valid
       THEN pc' = "auth" /\ UNCHANGED response
       ELSE pc' = "done" /\ response' = validationError
    /\ UNCHANGED <<req, filters, filters_search, queries, metrics, prevPeriod, stats,
                   osData, browserData, countryData, fdim, fdata, fret>>

\* lines 495-522: the authorization check, the date ranges, both filter sets
\* and the call of the current-period stats query
CanViewWebsite ==
    /\ pc = "auth"
    /\ IF ~MayView(req)
       THEN /\ pc' = "done"
            /\ response' = unauthorized
            /\ UNCHANGED <<filters, filters_search, queries>>
       ELSE LET range == getRequestDateRange(req)
                f == getRequestFilters(req)
            IN  /\ filters' = f
                /\ filters_search' = WithDates(f, range.startDate, range.endDate)
                /\ queries' = Append(queries,
                                     Query("getWebsiteStats", "",
                                           WithDates(f, range.startDate, range.endDate)))
                /\ pc' = "await_metrics"
                /\ UNCHANGED response
    /\ UNCHANGED <<req, metrics, prevPeriod, stats, osData, browserData, countryData,
                   fdim, fdata, fret>>

\* a pending query settles: it resolves with rows or rejects
Settle ==
    /\ \E i \in DOMAIN queries :
          /\ queries[i].status = "pending"
          /\ \E o \in Outcomes(queries[i]) :
                queries' = [queries EXCEPT ![i].status = o.status, ![i].value = o.value]
    /\ UNCHANGED <<pc, req, filters, filters_search, metrics, prevPeriod, stats,
                   osData, browserData, countryData, response, fdim, fdata, fret>>

\* lines 516-530: metrics is bound and the previous-period query is called
ResumeMetrics ==
    /\ pc = "await_metrics"
    /\ Awaited(queries[Len(queries)])
    /\ metrics' = CatchBadRequest(queries[Len(queries)])
    /\ LET range == getRequestDateRange(req)
           cmp == getCompareDate(req.compare, range.startDate, range.endDate)
       IN  queries' = Append(queries,
                             Query("getWebsiteStats", "",
                                   WithDates(filters, cmp.startDate, cmp.endDate)))
    /\ pc' = "await_prev"
    /\ UNCHANGED <<req, filters, filters_search, prevPeriod, stats, osData, browserData,
                   countryData, response, fdim, fdata, fret>>

\* lines 524-547: prevPeriod is bound, stats is computed (or throws) and the
\* search filter is written into filters_search
ResumePrev ==
    /\ pc = "await_prev"
    /\ Awaited(queries[Len(queries)])
    /\ prevPeriod' = CatchBadRequest(queries[Len(queries)])
    /\ LET st == Stats(metrics, CatchBadRequest(queries[Len(queries)]))
       IN  IF st.t = "TypeError"
           THEN /\ response' = TypeError
                /\ pc' = "done"
                /\ UNCHANGED <<stats, filters_search>>
           ELSE /\ stats' = st
                /\ filters_search' = ApplySearch(filters_search, req.type, req.search)
                /\ pc' = "call_os"
                /\ UNCHANGED response
    /\ UNCHANGED <<req, filters, queries, metrics, osData, browserData, countryData,
                   fdim, fdata, fret>>

SetData(i, v) ==
    /\ osData' = IF i = 1 THEN v ELSE osData
    /\ browserData' = IF i = 2 THEN v ELSE browserData
    /\ countryData' = IF i = 3 THEN v ELSE countryData

\* lines 550-556, 573-587: getMetricsData is called for the i-th breakdown
CallBreakdown(i) ==
    /\ pc = CallPc[i]
    /\ LET type == BreakdownTypes[i]
           fn == Dispatch(type)
       IN  IF fn = "none"
           THEN /\ SetData(i, Arr(<<>>))
                /\ pc' = AfterPc[i]
                /\ UNCHANGED queries
           ELSE /\ queries' = Append(queries, Query(fn, type, filters_search))
                /\ pc' = AwaitPc[i]
                /\ UNCHANGED <<osData, browserData, countryData>>
    /\ UNCHANGED <<req, filters, filters_search, metrics, prevPeriod, stats, response,
                   fdim, fdata, fret>>

\* lines 552-587: the query of the i-th breakdown has settled and
\* getMetricsData returns
ResumeBreakdown(i) ==
    /\ pc = AwaitPc[i]
    /\ Awaited(queries[Len(queries)])
    /\ LET ret == GetMetricsDataReturn(BreakdownTypes[i], queries[Len(queries)])
       IN  IF ret.t = "TypeError"
           THEN /\ response' = TypeError
                /\ pc' = "done"
                /\ UNCHANGED <<osData, browserData, countryData>>
           ELSE /\ SetData(i, ret)
                /\ pc' = AfterPc[i]
                /\ UNCHANGED response
    /\ UNCHANGED <<req, filters, filters_search, queries, metrics, prevPeriod, stats,
                   fdim, fdata, fret>>

\* lines 589-640: the three breakdowns are formatted and the payload returned
Respond ==
    /\ pc = "respond"
    /\ response' = Payload(osData, browserData, countryData, stats)
    /\ pc' = "done"
    /\ UNCHANGED <<req, filters, filters_search, queries, metrics, prevPeriod, stats,
                   osData, browserData, countryData, fdim, fdata, fret>>

Next ==
    \/ ParseRequest
    \/ CanViewWebsite
    \/ Settle
    \/ ResumeMetrics
    \/ ResumePrev
    \/ \E i \in DOMAIN BreakdownTypes : CallBreakdown(i)
    \/ \E i \in DOMAIN BreakdownTypes : ResumeBreakdown(i)
    \/ Respond

Spec == Init /\ [][Next]_vars

-----------------------------------------------------------------------------
(* The stats comparison studied alone: lines 532-538 on any two rows *)

StatKeys == {"pageviews", "visits"}

\* raw values of a stat row: numbers, bigints, numeric and non-numeric
\* strings, null
RawStatValues ==
    {Num(n) : n \in 0..MaxY} \cup {[t |-> "bigint", n |-> MaxY], Null} \cup
    {Str(<<"7">>), Str(<<" ", "1", "2">>), Str(<<>>), Str(<<"a", "b">>), Str(<<"1", "a">>)}

StatRows == UNION {[K -> RawStatValues] : K \in SUBSET StatKeys}

Idle ==
    /\ req = [valid |-> TRUE, canView |-> TRUE, type |-> "os", search |-> Undefined,
              params |-> <<>>, compare |-> "prev", startAt |-> 20, endAt |-> 30]
    /\ filters = <<>>
    /\ response = Undefined
    /\ osData = Undefined
    /\ browserData = Undefined
    /\ countryData = Undefined

InitStats ==
    /\ Idle
    /\ pc = "stats"
    /\ metrics \in {Arr(<<r>>) : r \in StatRows}
    /\ prevPeriod \in {Arr(<<r>>) : r \in StatRows}
    /\ stats = Undefined
    /\ filters_search = <<>>
    /\ queries = <<>>
    /\ fdim = "os"
    /\ fdata = Undefined
    /\ fret = Undefined

\* lines 532-538
ApplyStats ==
    /\ pc = "stats"
    /\ stats' = Stats(metrics, prevPeriod)
    /\ pc' = "stats_done"
    /\ UNCHANGED <<req, filters, filters_search, queries, metrics, prevPeriod,
                   osData, browserData, countryData, response, fdim, fdata, fret>>

NextStats == ApplyStats

SpecStats == InitStats /\ [][NextStats]_vars

-----------------------------------------------------------------------------
(* getMetricsData studied alone: lines 550-583 on any type *)

FetchTypes == {"os", "country", "language", "url", "event", "path", "startDate", ""}

\* how the query of a lone getMetricsData call can settle
FetchOutcomes(q) ==
    {Failed} \cup
    {Fulfilled(Arr(ps)) : ps \in SeqsUpTo([x : Codes(q.type), y : 1..MaxY], MaxPoints)}

InitFetch ==
    /\ Idle
    /\ pc = "fetch_call"
    /\ fdim \in FetchTypes
    /\ filters_search = WithDates(<<>>, Date(20), Date(30))
    /\ queries = <<>>
    /\ metrics = Undefined
    /\ prevPeriod = Undefined
    /\ stats = Undefined
    /\ fdata = Undefined
    /\ fret = Undefined

\* lines 550-552, 573-574, 582: the dispatch on type
FetchCall ==
    /\ pc = "fetch_call"
    /\ IF Dispatch(fdim) = "none"
       THEN /\ fret' = Arr(<<>>)
            /\ pc' = "fetch_done"
            /\ UNCHANGED queries
       ELSE /\ queries' = Append(queries, Query(Dispatch(fdim), fdim, filters_search))
            /\ pc' = "fetch_await"
            /\ UNCHANGED fret
    /\ UNCHANGED <<req, filters, filters_search, metrics, prevPeriod, stats,
                   osData, browserData, countryData, response, fdim, fdata>>

FetchSettle ==
    /\ \E i \in DOMAIN queries :
          /\ queries[i].status = "pending"
          /\ \E o \in FetchOutcomes(queries[i]) :
                queries' = [queries EXCEPT ![i].status = o.status, ![i].value = o.value]
    /\ UNCHANGED <<pc, req, filters, filters_search, metrics, prevPeriod, stats,
                   osData, browserData, countryData, response, fdim, fdata, fret>>

\* lines 552-570, 574-579: the query has settled and getMetricsData returns
FetchResume ==
    /\ pc = "fetch_await"
    /\ Awaited(queries[Len(queries)])
    /\ fret' = GetMetricsDataReturn(fdim, queries[Len(queries)])
    /\ pc' = "fetch_done"
    /\ UNCHANGED <<req, filters, filters_search, queries, metrics, prevPeriod, stats,
                   osData, browserData, countryData, response, fdim, fdata>>

NextFetch == FetchCall \/ FetchSettle \/ FetchResume

SpecFetch == InitFetch /\ [][NextFetch]_vars

-----------------------------------------------------------------------------
(* formattedData studied alone: lines 589-632 on any data and type *)

FormatTypes == {"os", "browser", "country", "device", "path"}

InitFormat ==
    /\ Idle
    /\ pc = "format"
    /\ fdim \in FormatTypes
    /\ fdata \in {Arr(ps) : ps \in SeqsUpTo([x : Codes(fdim), y : 0..MaxY], MaxPoints)}
    /\ fret = Undefined
    /\ filters_search = <<>>
    /\ queries = <<>>
    /\ metrics = Undefined
    /\ prevPeriod = Undefined
    /\ stats = Undefined

\* lines 589-632
ApplyFormat ==
    /\ pc = "format"
    /\ fret' = formattedData(fdata, fdim)
    /\ pc' = "format_done"
    /\ UNCHANGED <<req, filters, filters_search, queries, metrics, prevPeriod, stats,
                   osData, browserData, countryData, response, fdim, fdata>>

NextFormat == ApplyFormat

SpecFormat == InitFormat /\ [][NextFormat]_vars

-----------------------------------------------------------------------------
(* Properties *)

Ended == pc = "done"

SomeQueryRejected == \E i \in DOMAIN queries : queries[i].status = "rejected"

AllQueriesFulfilled == \A i \in DOMAIN queries : queries[i].status = "fulfilled"

IsPayload(r) == r.t = "Response" /\ r.status = "ok"

\* C1: when any of the underlying queries has failed, the request ends with
\* the bad-request response: no exception leaves the handler and no payload
\* is returned.  (Checked under Spec.)
C1_FailedQueryEndsBadRequest ==
    (Ended /\ SomeQueryRejected) => response = badRequest

\* C2: when canViewWebsite returns false the request ends with the
\* unauthorized response and no query is ever issued.  (Checked under Spec.)
C2_UnauthorizedNoDataAccess ==
    ~req.canView =>
        /\ queries = <<>>
        /\ (Ended /\ req.valid) => response = unauthorized
        /\ ~IsPayload(response)

C2_Witness ==
    Ended /\ req.valid /\ ~req.canView /\ response = unauthorized /\ queries = <<>>

\* the number a raw stat value stands for, written out value by value
StatValueOracle(v) ==
    CASE v = Str(<<"7">>) -> 7
      [] v = Str(<<" ", "1", "2">>) -> 12
      [] v.t = "number" -> v.n
      [] v.t = "bigint" -> v.n
      [] OTHER -> 0

ExpectedStat(row, k) == IF k \in DOMAIN row THEN StatValueOracle(row[k]) ELSE 0

C4_NoRowsNeverFails ==
    (Ended /\ Len(queries) >= 2 /\ AllQueriesFulfilled) =>
        /\ IsPayload(response)
        /\ queries[1].value.items = <<>> => response.body.stats = Obj(<<>>)
        /\ (queries[1].value.items # <<>> /\ queries[2].value.items = <<>>) =>
              /\ DOMAIN response.body.stats.map = DOMAIN queries[1].value.items[1]
              /\ \A k \in DOMAIN response.body.stats.map :
                    response.body.stats.map[k].prev = 0

\* C5: a type in neither family makes getMetricsData return an empty
\* sequence without issuing any query; a session-family type issues only the
\* session-metrics query and an event-family type only the pageview-metrics
\* query.  (Checked under SpecFetch.)
C5_DispatchByFamily ==
    /\ fdim \notin SESSION_COLUMNS \cup EVENT_COLUMNS =>
          /\ queries = <<>>
          /\ pc = "fetch_done" => fret = Arr(<<>>)
    /\ fdim \in SESSION_COLUMNS =>
          /\ \A i \in DOMAIN queries : queries[i].fn = "getSessionMetrics"
          /\ Len(queries) = IF pc = "fetch_call" THEN 0 ELSE 1
    /\ fdim \in EVENT_COLUMNS \ SESSION_COLUMNS =>
          /\ \A i \in DOMAIN queries : queries[i].fn = "getPageviewMetrics"
          /\ Len(queries) = IF pc = "fetch_call" THEN 0 ELSE 1

C5_Witness ==
    /\ pc = "fetch_done"
    /\ fdim \notin SESSION_COLUMNS \cup EVENT_COLUMNS
    /\ fret = Arr(<<>>)
    /\ queries = <<>>

\* the bucket of each language tag, written out tag by tag
LanguageBucketOracle(x) ==
    CASE x = <<"e", "n", "-", "U", "S">> -> <<"e", "n">>
      [] x = <<"E", "N">> -> <<"e", "n">>
      [] OTHER -> x

RECURSIVE FirstSeenBuckets(_, _)
FirstSeenBuckets(points, seen) ==
    IF points = <<>> THEN seen
    ELSE LET b == LanguageBucketOracle(points[1].x)
         IN  FirstSeenBuckets(Tail(points),
                              IF \E i \in DOMAIN seen : seen[i] = b
                              THEN seen ELSE Append(seen, b))

RECURSIVE SumY(_)
SumY(points) == IF points = <<>> THEN 0 ELSE points[1].y + SumY(Tail(points))

ExpectedLanguages(points) ==
    LET buckets == FirstSeenBuckets(points, <<>>)
    IN  [i \in DOMAIN buckets |->
            [x |-> buckets[i],
             y |-> SumY(SelectSeq(points,
                                  LAMBDA p : LanguageBucketOracle(p.x) = buckets[i]))]]

\* C6: language normalization outputs one data point per distinct bucket key
\* (lower-cased x before the first '-'), whose y is the sum of the y of the
\* input points of that bucket, in the order in which the bucket keys first
\* occur in the input.  (Checked under SpecFetch.)
C6_LanguageFirstSeenOrder ==
    (pc = "fetch_done" /\ fdim = "language" /\ queries[1].status = "fulfilled") =>
        fret = Arr(ExpectedLanguages(queries[1].value.items))

\* C7 as claimed: for every type, the output of formattedData has the length
\* of its input and the same sum of y.  (Checked under SpecFormat.)
C7_FormatKeepsLengthAndSumAnyType ==
    pc = "format_done" =>
        /\ fret.t = "array"
        /\ Len(fret.items) = Len(fdata.items)
        /\ SumY(fret.items) = SumY(fdata.items)

\* C7 as amended: for type os, browser or country the output of formattedData
\* has the length of its input and the same sum of y; for any other type the
\* output is the empty sequence.  (Checked under SpecFormat.)
C7_FormatKeepsLengthAndSum ==
    pc = "format_done" =>
        /\ fret.t = "array"
        /\ IF fdim \in {"os", "browser", "country"}
           THEN /\ Len(fret.items) = Len(fdata.items)
                /\ SumY(fret.items) = SumY(fdata.items)
           ELSE fret.items = <<>>

C7_Witness ==
    /\ pc = "format_done"
    /\ fdim = "country"
    /\ Len(fdata.items) >= 2
    /\ \E i \in DOMAIN fdata.items : fdata.items[i].x \notin DOMAIN countryNames
    /\ Len(fret.items) = Len(fdata.items)
    /\ SumY(fret.items) > 0

NameTable(type) ==
    CASE type = "os" -> OS_NAMES
      [] type = "browser" -> BROWSERS
      [] type = "country" -> countryNames

\* C8: for type os, browser or country the i-th formatted item keeps the x and
\* y of the i-th input point, and its name is table[x] when the table has an
\* entry for x and x itself otherwise; no point is dropped.
\* (Checked under SpecFormat.)
C8_FormatNamesInOrder ==
    (pc = "format_done" /\ fdim \in {"os", "browser", "country"}) =>
        /\ fret.t = "array"
        /\ DOMAIN fret.items = DOMAIN fdata.items
        /\ \A i \in DOMAIN fdata.items :
              /\ fret.items[i].x = fdata.items[i].x
              /\ fret.items[i].y = fdata.items[i].y
              /\ fret.items[i].name =
                    IF fdata.items[i].x \in DOMAIN NameTable(fdim)
                    THEN NameTable(fdim)[fdata.items[i].x]
                    ELSE fdata.items[i].x

C8_Witness ==
    /\ pc = "format_done"
    /\ fdim = "os"
    /\ Len(fdata.items) = 2
    /\ fdata.items[1].x = <<"X">>
    /\ fdata.items[2].x = <<"M", "a", "c", " ", "O", "S">>
    /\ fret.items[1].name = <<"X">>
    /\ fret.items[2].name = <<"m", "a", "c", "O", "S">>
    /\ fret.items[2].x = <<"M", "a", "c", " ", "O", "S">>

PrimaryFilters == WithDates(filters, Date(req.startAt), Date(req.endAt))

IsSearchFilter(v) == v.t = "filter"

\* C9: the filter set of the two website-stats queries never holds the
\* search filter; the filter set of every breakdown query has the startDate,
\* the endDate and the pass-through filters of the primary set and, exactly
\* when a search term is given, one more entry under key type:
\* {name: type, column: FILTER_COLUMNS[type] or type, operator: contains,
\* value: search}; the primary set is not modified.  (Checked under Spec.)
C9_BreakdownFiltersArePrimaryPlusSearch ==
    /\ filters # Undefined => filters = getRequestFilters(req)
    /\ \A i \in DOMAIN queries :
          LET f == queries[i].filters
          IN  IF queries[i].fn = "getWebsiteStats"
              THEN \A k \in DOMAIN f : ~IsSearchFilter(f[k])
              ELSE /\ f["startDate"] = Date(req.startAt)
                   /\ f["endDate"] = Date(req.endAt)
                   /\ \A k \in DOMAIN filters \ {req.type} : k \in DOMAIN f /\ f[k] = filters[k]
                   /\ IF req.search.t = "string" /\ req.search.s # ""
                      THEN /\ DOMAIN f = DOMAIN PrimaryFilters \cup {req.type}
                           /\ f[req.type] =
                                 [t |-> "filter", name |-> req.type,
                                  column |-> IF req.type \in DOMAIN FILTER_COLUMNS
                                             THEN FILTER_COLUMNS[req.type]
                                             ELSE req.type,
                                  operator |-> OPERATORS_contains,
                                  value |-> req.search.s]
                      ELSE f = PrimaryFilters

\* the five queries of a request, in the order of the code
QueryOrder ==
    <<[fn |-> "getWebsiteStats", type |-> ""],
      [fn |-> "getWebsiteStats", type |-> ""],
      [fn |-> "getSessionMetrics", type |-> "os"],
      [fn |-> "getSessionMetrics", type |-> "browser"],
      [fn |-> "getSessionMetrics", type |-> "country"]>>

\* C10: within a request the queries are issued one at a time in the order
\* current-period stats, previous-period stats, os, browser, country: a query
\* is issued only after the one before it has settled, so at most one is
\* outstanding, and the payload is returned only after all five have settled.
\* (Checked under Spec.)
C10_QueriesOneAtATime ==
    /\ Len(queries) <= Len(QueryOrder)
    /\ \A i \in DOMAIN queries :
          /\ queries[i].fn = QueryOrder[i].fn
          /\ queries[i].type = QueryOrder[i].type
          /\ i < Len(queries) => queries[i].status # "pending"
    /\ Len(queries) >= 1 => queries[1].filters["startDate"] = Date(req.startAt)
    /\ Len(queries) >= 2 => queries[2].filters["endDate"] = Date(req.startAt)
    /\ Cardinality({i \in DOMAIN queries : queries[i].status = "pending"}) <= 1
    /\ IsPayload(response) =>
          /\ Len(queries) = Len(QueryOrder)
          /\ \A i \in DOMAIN queries : queries[i].status # "pending"

C10_Witness ==
    /\ IsPayload(response)
    /\ Len(queries) = 5
    /\ AllQueriesFulfilled

====
